---- MODULE Spec2Model ----
(***************************************************************************)
(* A model of three policy engines of the nitro build layer:               *)
(*   - the server-handlers virtual module generator (handlers),            *)
(*   - the chunk classifier getChunkName of the rollup configuration,      *)
(*   - the resolveId hook of the "no-externals" rollup plugin.             *)
(*                                                                         *)
(* Strings are sequences of tokens.  A token is an atomic piece of text    *)
(* (a separator, a word, a reserved prefix); no token of the model is a    *)
(* proper prefix of another one, so String.startsWith is the prefix order  *)
(* of sequences and concatenation is \o.  A JavaScript object is a record  *)
(* whose DOMAIN is the set of keys it has: a missing key is a key outside  *)
(* the DOMAIN.                                                             *)
(***************************************************************************)
EXTENDS Integers, Sequences, FiniteSets, TLC

VARIABLES
  scannedHandlers,   \* nitro.scannedHandlers
  optionsHandlers,   \* nitro.options.handlers
  serveStatic,       \* nitro.options.serveStatic
  renderer,          \* nitro.options.renderer (a module id, or Undefined)
  isDebug,           \* std-env isDebug
  lastDump,          \* the closure variable lastDump of handlers()
  previousDump,      \* the table of the previous invocation, serialized
  code,              \* what the latest generator invocation returned
  logged,            \* what the latest generator invocation printed
  buildDir,          \* nitro.options.buildDir
  runtimeDir,        \* runtimeDir of nitropack/runtime/meta
  tasks,             \* nitro.options.tasks (the set of task handler ids)
  chunkCall,         \* the latest getChunkName call: its argument and result
  resolveCall,       \* the latest resolveId call: its inputs and outcome
  externalsPlugin,   \* the externals plugin getRollupConfig sets up, and from what
  twin               \* a second process over the same handler sources

vars == <<scannedHandlers, optionsHandlers, serveStatic, renderer, isDebug,
          lastDump, previousDump, code, logged, buildDir, runtimeDir, tasks,
          chunkCall, resolveCall, externalsPlugin, twin>>

handlerVars == <<scannedHandlers, optionsHandlers, serveStatic, renderer,
                 isDebug, lastDump, previousDump, code, logged, twin>>

chunkVars == <<buildDir, runtimeDir, tasks, chunkCall>>

-----------------------------------------------------------------------------
(* Bounds of the model. *)

MaxScanned == 1

MaxConfigured == 2

MaxPathLen == 5

MaxSubpath == 2

-----------------------------------------------------------------------------
(* JavaScript values and strings. *)

\* The value undefined where a string is expected (a token no string has).
Undefined == <<"<undefined>">>

Has(obj, key) == key \in DOMAIN obj

\* obj[key], undefined when the key is missing.
Get(obj, key, undef) == IF Has(obj, key) THEN obj[key] ELSE undef

\* JavaScript truthiness of an optional boolean field.
TruthyFlag(obj, key) == Has(obj, key) /\ obj[key] = TRUE

\* JavaScript truthiness of an optional string field.
TruthyStr(obj, key) == Has(obj, key) /\ obj[key] # Undefined /\ obj[key] # <<>>

StartsWith(s, prefix) ==
  /\ Len(prefix) <= Len(s)
  /\ SubSeq(s, 1, Len(prefix)) = prefix

EndsWith(s, suffix) ==
  /\ Len(suffix) <= Len(s)
  /\ SubSeq(s, Len(s) - Len(suffix) + 1, Len(s)) = suffix

\* String.prototype.slice(0, n)
Slice0(s, n) == SubSeq(s, 1, IF Len(s) < n THEN Len(s) ELSE n)

\* All sequences over S of length at most n.
SeqsUpTo(S, n) == UNION {[1..k -> S] : k \in 0..n}

\* JSON.stringify of a string or of undefined.
JSONstringify(s) == IF s = Undefined THEN <<"undefined">> ELSE <<"\"">> \o s \o <<"\"">>

RECURSIVE unique(_)
\* unique: Array.from(new Set(arr)) keeps the first occurrence of every element.
unique(arr) ==
  IF arr = <<>> THEN <<>>
  ELSE LET front == unique(SubSeq(arr, 1, Len(arr) - 1))
           last == arr[Len(arr)]
       IN  IF \E i \in 1..Len(front) : front[i] = last THEN front
           ELSE Append(front, last)

Map(s, F(_)) == [i \in 1..Len(s) |-> F(s[i])]

-----------------------------------------------------------------------------
(* Paths (pathe). *)

Slash == "/"

RECURSIVE Segments(_)
\* The segments of a path: the maximal runs of tokens between separators.
Segments(p) ==
  IF p = <<>> THEN <<>>
  ELSE IF p[1] = Slash THEN Segments(Tail(p))
  ELSE LET stops == {i \in 1..Len(p) : p[i] = Slash}
           end == IF stops = {} THEN Len(p) + 1
                  ELSE CHOOSE i \in stops : \A j \in stops : i <= j
       IN  <<SubSeq(p, 1, end - 1)>> \o Segments(SubSeq(p, end, Len(p)))

RECURSIVE NormalizeSegments(_, _)
\* Resolves "." and ".." segments against the segments kept so far.
NormalizeSegments(segs, kept) ==
  IF segs = <<>> THEN kept
  ELSE IF segs[1] = <<".">> THEN NormalizeSegments(Tail(segs), kept)
  ELSE IF segs[1] = <<"..">> THEN
         NormalizeSegments(Tail(segs),
                           IF kept = <<>> THEN kept ELSE SubSeq(kept, 1, Len(kept) - 1))
  ELSE NormalizeSegments(Tail(segs), Append(kept, segs[1]))

RECURSIVE JoinSegments(_)
JoinSegments(segs) ==
  IF segs = <<>> THEN <<>>
  ELSE IF Len(segs) = 1 THEN segs[1]
  ELSE segs[1] \o <<Slash>> \o JoinSegments(Tail(segs))

IsAbsolute(p) == p # <<>> /\ p[1] = Slash

\* pathe resolve of an absolute path: the normalized path, without a trailing
\* separator.
ResolveAbs(p) ==
  LET segs == NormalizeSegments(Segments(p), <<>>)
  IN  <<Slash>> \o JoinSegments(segs)

\* pathe join(a, b): the two joined by a separator, then normalized.
join(a, b) ==
  LET p == a \o <<Slash>> \o b
      segs == NormalizeSegments(Segments(p), <<>>)
  IN  (IF IsAbsolute(a) THEN <<Slash>> ELSE <<>>) \o JoinSegments(segs)

\* pathe resolve(a, b) for an absolute a and a relative b.
resolve(a, b) == ResolveAbs(a \o <<Slash>> \o b)

\* process.cwd()
Cwd == <<"/", "proj">>

RECURSIVE CommonPrefixLen(_, _)
CommonPrefixLen(a, b) ==
  IF a = <<>> \/ b = <<>> \/ a[1] # b[1] THEN 0
  ELSE 1 + CommonPrefixLen(Tail(a), Tail(b))

\* pathe relative(from, to): both resolved against the working directory, the
\* common leading segments dropped, one ".." for every segment left of from.
relative(from, to) ==
  LET abs(p) == IF IsAbsolute(p) THEN p ELSE Cwd \o <<Slash>> \o p
      f == NormalizeSegments(Segments(abs(from)), <<>>)
      t == NormalizeSegments(Segments(abs(to)), <<>>)
      n == CommonPrefixLen(f, t)
      ups == [i \in 1..(Len(f) - n) |-> <<"..">>]
  IN  JoinSegments(ups \o SubSeq(t, n + 1, Len(t)))

-----------------------------------------------------------------------------
(* ohash: hash(p), a digest of ten alphanumeric characters. *)

Alnum ==
  <<"A", "B", "C", "D", "E", "F", "G", "H", "I", "J", "K", "L", "M", "N", "O",
    "P", "Q", "R", "S", "T", "U", "V", "W", "X", "Y", "Z", "a", "b", "c", "d",
    "e", "f", "g", "h", "i", "j", "k", "l", "m", "n", "o", "p", "q", "r", "s",
    "t", "u", "v", "w", "x", "y", "z", "0", "1", "2", "3", "4", "5", "6", "7",
    "8", "9">>

\* The tokens module ids are written with; a token's code is its index.
TokenList ==
  <<"/", ".", "a", "b", "x", "u", "ts", "get", "head", "patch", "post", "put",
    "delete", "connect", "options", "trace", "proj", "src", "out",
    "node_modules", "nitro", "runtime", "presets", "dist/server", "-",
    "#internal/nitro/static", "..">>

TokenCode(t) == CHOOSE i \in 1..Len(TokenList) : TokenList[i] = t

RECURSIVE Digest(_, _)
\* A position-weighted sum of the codes of the tokens from position i on.
Digest(p, i) ==
  IF p = <<>> THEN 0 ELSE i * TokenCode(p[1]) + Digest(Tail(p), i + 1)

\* The digest of an id, from the sum of its token codes.  The digest's first six characters are decided by the sum modulo the size
\* of the alphabet, its last four by the quotient: two ids whose sums agree
\* modulo the alphabet collide on the first six characters.
HashOfSum(sum, n) ==
  [k \in 1..10 |->
     IF k <= 6 THEN Alnum[(((sum % n) * (k + 2) + k) % n) + 1]
     ELSE Alnum[(((sum \div n) + k) % n) + 1]]

hash(p) == HashOfSum(Digest(p, 1), Len(Alnum))

-----------------------------------------------------------------------------
(* The server-handlers generator. *)

LazyPrefix == <<"_", "l", "a", "z", "y", "_">>

EagerPrefix == <<"_">>

\* A getImportId that drops the variant prefix.
getImportIdOneNamespace(p, lazy) == EagerPrefix \o Slice0(hash(p), 6)

\* getImportId(p, lazy); lazy is the truthiness of the second argument.
getImportId(p, lazy) ==
  (IF lazy THEN LazyPrefix ELSE EagerPrefix) \o Slice0(hash(p), 6)

Methods ==
  {"get", "head", "patch", "post", "put", "delete", "connect", "options", "trace"}

\* The characters \w matches, as tokens.
WordTokens == Methods \cup {"a", "b", "x", "u", "ts", "proj", "src", "out", "nitro",
                            "runtime", "presets", "node_modules"}

RECURSIVE IsExtChain(_)
\* (\.\w+)*$ : the rest of the path is a chain of ".word" groups.
IsExtChain(s) ==
  \/ s = <<>>
  \/ /\ Len(s) >= 2
     /\ s[1] = "."
     /\ s[2] \in WordTokens
     /\ \E k \in 2..Len(s) :
          /\ \A j \in 2..k : s[j] \in WordTokens
          /\ IsExtChain(SubSeq(s, k + 1, Len(s)))

\* The positions where /\.(get|...|trace)(\.\w+)*$/ matches.
MethodMatches(p) ==
  {i \in 1..(Len(p) - 1) :
     /\ p[i] = "."
     /\ p[i + 1] \in Methods
     /\ IsExtChain(SubSeq(p, i + 2, Len(p)))}

\* An inference that takes the rightmost match instead of the leftmost.
InferMethodRightmost(p) ==
  LET m == MethodMatches(p)
  IN  IF m = {} THEN Undefined
      ELSE LET i == CHOOSE i \in m : \A j \in m : i >= j
           IN  <<p[i + 1]>>

\* const [, method = undefined] = handler.handler.match(...) || []
\* String.prototype.match returns the leftmost match.
InferMethod(p) ==
  LET m == MethodMatches(p)
  IN  IF m = {} THEN Undefined
      ELSE LET i == CHOOSE i \in m : \A j \in m : i <= j
           IN  <<p[i + 1]>>

\* The callback of nitro.options.handlers.map.
WithMethod(handler) ==
  IF TruthyStr(handler, "method") THEN handler
  ELSE [k \in DOMAIN handler \cup {"method"} |->
          IF k = "method" THEN InferMethod(handler.handler) ELSE handler[k]]

StaticHandler == [middleware |-> TRUE, handler |-> <<"#internal/nitro/static">>]

RendererHandler(r) == [route |-> <<"/", "**">>, lazy |-> TRUE, handler |-> r]

\* An assembly that puts the configured handlers before the scanned ones.
HandlersConfiguredFirst(scanned, configured, static, rend) ==
  LET base == Map(configured, WithMethod) \o scanned
      withStatic == IF static THEN <<StaticHandler>> \o base ELSE base
  IN  IF rend # Undefined /\ rend # <<>>
      THEN Append(withStatic, RendererHandler(rend))
      ELSE withStatic

\* The array `handlers` of one invocation.
Handlers(scanned, configured, static, rend) ==
  LET base == scanned \o Map(configured, WithMethod)
      withStatic == IF static THEN <<StaticHandler>> \o base ELSE base
  IN  IF rend # Undefined /\ rend # <<>>
      THEN Append(withStatic, RendererHandler(rend))
      ELSE withStatic

IsEager(h) == ~TruthyFlag(h, "lazy")

IsLazy(h) == TruthyFlag(h, "lazy")

HandlerOf(h) == h.handler

\* const imports = unique(handlers.filter(h => !h.lazy).map(h => h.handler))
imports(hs) == unique(Map(SelectSeq(hs, IsEager), HandlerOf))

\* Lazy imports listed once for every lazy row.
lazyImportsRepeated(hs) == Map(SelectSeq(hs, IsLazy), HandlerOf)

\* const lazyImports = unique(handlers.filter(h => h.lazy).map(h => h.handler))
lazyImports(hs) == unique(Map(SelectSeq(hs, IsLazy), HandlerOf))

\* `import ${getImportId(handler)} from '${handler}';`
ImportStatement(handler) ==
  [kind |-> "import", id |-> getImportId(handler, FALSE), from |-> handler]

\* `const ${getImportId(handler, true)} = () => import('${handler}');`
LazyStatement(handler) ==
  [kind |-> "thunk", id |-> getImportId(handler, TRUE), from |-> handler]

BoolText(b) == IF b THEN "true" ELSE "false"

\* A row whose middleware field tells whether the key is there, not its value.
HandlerRowKeyPresence(h) ==
  [route |-> <<"'">> \o (IF TruthyStr(h, "route") THEN h.route ELSE <<>>) \o <<"'">>,
   handler |-> getImportId(h.handler, TruthyFlag(h, "lazy")),
   lazy |-> BoolText(TruthyFlag(h, "lazy")),
   middleware |-> BoolText(Has(h, "middleware")),
   method |-> JSONstringify(Get(h, "method", Undefined))]

\* One row of the exported array, field by field as the template writes it.
HandlerRow(h) ==
  [route |-> <<"'">> \o (IF TruthyStr(h, "route") THEN h.route ELSE <<>>) \o <<"'">>,
   handler |-> getImportId(h.handler, TruthyFlag(h, "lazy")),
   lazy |-> BoolText(TruthyFlag(h, "lazy")),
   middleware |-> BoolText(TruthyFlag(h, "middleware")),
   method |-> JSONstringify(Get(h, "method", Undefined))]

\* The generated source text.
GeneratedCode(hs) ==
  [imports |-> Map(imports(hs), ImportStatement),
   lazyImports |-> Map(lazyImports(hs), LazyStatement),
   handlers |-> Map(hs, HandlerRow)]

\* dumpObject: one "key: value" item per key of the object.
dumpObject(obj) ==
  LET keys == SelectSeq(<<"lazy", "middleware", "method">>, LAMBDA k : Has(obj, k))
      text(k) == IF k = "method"
                 THEN (IF obj[k] = Undefined THEN <<"undefined">> ELSE obj[k])
                 ELSE <<BoolText(obj[k])>>
  IN  [i \in 1..Len(keys) |-> <<keys[i], text(keys[i])>>]

\* One data row of the diagnostic table.
DumpRow(h) ==
  <<IF TruthyStr(h, "route") /\ h.route # <<Slash>> THEN h.route ELSE <<"*">>,
    relative(Cwd, h.handler),
    dumpObject(h)>>

\* dumpHandler: the table, its header row first.
dumpHandler(hs) == <<<<"Path", "Handler", "Options">>>> \o Map(hs, DumpRow)

-----------------------------------------------------------------------------
(* The chunk classifier of the rollup configuration. *)

\* The character \0 that starts the id of a virtual module.
Nul == "NUL"

\* const buildServerDir = join(nitro.options.buildDir, "dist/server")
buildServerDirOf(bDir) == join(bDir, <<"dist/server">>)

\* const presetsDir = resolve(runtimeDir, "../presets")
presetsDirOf(rDir) == resolve(rDir, <<"..", Slash, "presets">>)

\* A prefix table that lists the generic virtual prefix before the reserved ones
\* and the runtime directories before the build directories.
chunkNamePrefixesReordered(bDir, rDir) ==
  <<<<<<Nul>>, "virtual">>,
    <<rDir, "nitro">>,
    <<presetsDirOf(rDir), "nitro">>,
    <<bDir, "build">>,
    <<buildServerDirOf(bDir), "app">>,
    <<<<Nul, "raw:">>, "raw">>,
    <<<<Nul, "nitro-wasm:">>, "wasm">>>>

\* A prefix table that lists the server build directory before the build
\* directory.
chunkNamePrefixesServerDirFirst(bDir, rDir) ==
  <<<<buildServerDirOf(bDir), "app">>,
    <<bDir, "build">>,
    <<rDir, "nitro">>,
    <<presetsDirOf(rDir), "nitro">>,
    <<<<Nul, "raw:">>, "raw">>,
    <<<<Nul, "nitro-wasm:">>, "wasm">>,
    <<<<Nul>>, "virtual">>>>

\* const chunkNamePrefixes = [...]
chunkNamePrefixes(bDir, rDir) ==
  <<<<bDir, "build">>,
    <<buildServerDirOf(bDir), "app">>,
    <<rDir, "nitro">>,
    <<presetsDirOf(rDir), "nitro">>,
    <<<<Nul, "raw:">>, "raw">>,
    <<<<Nul, "nitro-wasm:">>, "wasm">>,
    <<<<Nul>>, "virtual">>>>

\* `chunks/${name}/[name].mjs`
ChunkFile(name) == <<"chunks/", name, "/[name].mjs">>

RECURSIVE ReplaceParams(_)
\* route.replace(/:([^/]+)/g, "_$1"): a ":" with at least one character other
\* than "/" after it becomes "_", and the match runs up to the next "/".
ReplaceParams(r) ==
  IF r = <<>> THEN <<>>
  ELSE IF r[1] = ":" /\ Len(r) >= 2 /\ r[2] # Slash THEN
         LET stops == {i \in 2..Len(r) : r[i] = Slash}
             end == IF stops = {} THEN Len(r) + 1
                    ELSE CHOOSE i \in stops : \A j \in stops : i <= j
         IN  <<"_">> \o SubSeq(r, 2, end - 1) \o ReplaceParams(SubSeq(r, end, Len(r)))
  ELSE <<r[1]>> \o ReplaceParams(Tail(r))

\* path.replace(/\/[^/]+$/g, ""): the last "/" and the segment after it go,
\* when that segment is not empty.
StripLastSegment(r) ==
  LET slashes == {i \in 1..Len(r) : r[i] = Slash}
  IN  IF slashes = {} THEN r
      ELSE LET last == CHOOSE i \in slashes : \A j \in slashes : i >= j
           IN  IF last = Len(r) THEN r ELSE SubSeq(r, 1, last - 1)

\* The group of a module owned by a handler with the route r.
RouteChunkPath(r) ==
  LET stripped == StripLastSegment(ReplaceParams(r))
  IN  IF stripped = <<>> THEN <<Slash>> ELSE stripped

\* Array.prototype.find with id.startsWith(h.handler): the index of the first
\* owner of the id, 0 when there is none.
FindOwner(hs, id) ==
  LET owners == {i \in 1..Len(hs) : StartsWith(id, hs[i].handler)}
  IN  IF owners = {} THEN 0 ELSE CHOOSE i \in owners : \A j \in owners : i <= j

\* An owner lookup that asks the discovered handlers before the configured
\* ones.
ChunkNameByOwnerScannedFirst(id, configured, scanned, taskHandlers) ==
  LET c == FindOwner(configured, id)
      s == FindOwner(scanned, id)
      found == c # 0 \/ s # 0
      routeHandler == IF s # 0 THEN scanned[s] ELSE configured[c]
  IN  IF found /\ TruthyStr(routeHandler, "route")
      THEN <<"chunks/routes">> \o RouteChunkPath(routeHandler.route) \o <<"/[name].mjs">>
      ELSE IF id \in taskHandlers THEN ChunkFile("tasks")
      ELSE ChunkFile("_")

\* The part of getChunkName after the prefix table: route handlers, task
\* handlers, then the unknown group.
ChunkNameByOwner(id, configured, scanned, taskHandlers) ==
  LET c == FindOwner(configured, id)
      s == FindOwner(scanned, id)
      found == c # 0 \/ s # 0
      routeHandler == IF c # 0 THEN configured[c] ELSE scanned[s]
  IN  IF found /\ TruthyStr(routeHandler, "route")
      THEN <<"chunks/routes">> \o RouteChunkPath(routeHandler.route) \o <<"/[name].mjs">>
      ELSE IF id \in taskHandlers THEN ChunkFile("tasks")
      ELSE ChunkFile("_")

\* A classifier that asks the route and task owners before the prefix table.
getChunkNameOwnersFirst(id, bDir, rDir, configured, scanned, taskHandlers) ==
  LET byOwner == ChunkNameByOwner(id, configured, scanned, taskHandlers)
      table == chunkNamePrefixes(bDir, rDir)
      hits == {i \in 1..Len(table) : StartsWith(id, table[i][1])}
  IN  IF byOwner # ChunkFile("_") \/ hits = {} THEN byOwner
      ELSE ChunkFile(table[CHOOSE i \in hits : \A j \in hits : i <= j][2])

\* function getChunkName(id)
getChunkName(id, bDir, rDir, configured, scanned, taskHandlers) ==
  LET table == chunkNamePrefixes(bDir, rDir)
      hits == {i \in 1..Len(table) : StartsWith(id, table[i][1])}
  IN  IF hits # {}
      THEN ChunkFile(table[CHOOSE i \in hits : \A j \in hits : i <= j][2])
      ELSE ChunkNameByOwner(id, configured, scanned, taskHandlers)

-----------------------------------------------------------------------------
(* The build state the generator reads. *)

ProjectRuntime == <<"/", "proj", "/", "node_modules", "/", "nitro", "/", "runtime">>

HA == <<"/", "proj", "/", "src", "/", "a", ".", "get", ".", "ts">>

HB == <<"/", "proj", "/", "src", "/", "b", ".", "ts">>

\* An id whose digest agrees with HA's on the first six characters.
HX == <<"/", "proj", "/", "src", "/", "x", "u", "a", ".", "ts">>

\* What the scanner of the routes and middleware directories yields.
ScannedDecls ==
  {[route |-> <<"/", "a">>, handler |-> HA, lazy |-> TRUE, middleware |-> FALSE,
    method |-> <<"get">>],
   [middleware |-> TRUE, handler |-> HB]}

\* Entries of the `handlers` option of the configuration.
ConfiguredDecls ==
  {[route |-> <<"/", "a">>, handler |-> HA, lazy |-> FALSE],
   [route |-> <<"/", "b">>, handler |-> HA, lazy |-> TRUE],
   [handler |-> HB, method |-> <<"post">>],
   [route |-> <<"/">>, handler |-> HX, lazy |-> TRUE, middleware |-> TRUE]}

Renderers == {Undefined, HB}

NoChunkCall == <<>>

NoTwin == <<>>

NoResolveCall == <<>>

NoExternalsPlugin == <<>>

InitHandlers ==
  /\ scannedHandlers \in SeqsUpTo(ScannedDecls, MaxScanned)
  /\ optionsHandlers \in SeqsUpTo(ConfiguredDecls, MaxConfigured)
  /\ serveStatic \in BOOLEAN
  /\ renderer \in Renderers
  /\ isDebug \in BOOLEAN
  /\ lastDump = <<>>
  /\ previousDump = <<>>
  /\ twin = NoTwin
  /\ code = <<>>
  /\ logged = <<>>

Init ==
  /\ InitHandlers
  /\ buildDir = <<"/", "proj", "/", "out">>
  /\ runtimeDir = ProjectRuntime
  /\ tasks = {}
  /\ chunkCall = NoChunkCall
  /\ resolveCall = NoResolveCall
  /\ externalsPlugin = NoExternalsPlugin

\* An invocation that does not remember the table it has dumped.
GenerateForgetful ==
  LET hs == Handlers(scannedHandlers, optionsHandlers, serveStatic, renderer)
      dumped == dumpHandler(hs)
      changed == isDebug /\ dumped # lastDump
  IN  /\ logged' = IF changed /\ Len(hs) # 0 THEN dumped ELSE <<>>
      /\ previousDump' = dumped
      /\ code' = <<GeneratedCode(hs)>>
      /\ UNCHANGED <<scannedHandlers, optionsHandlers, serveStatic, renderer, isDebug,
                     lastDump>>
      /\ UNCHANGED <<chunkVars, resolveCall, externalsPlugin, twin>>

\* An invocation that adds the static-asset row to nitro.scannedHandlers
\* itself.
GenerateAccumulating ==
  LET grown == IF serveStatic /\ Len(scannedHandlers) < 3
               THEN <<StaticHandler>> \o scannedHandlers ELSE scannedHandlers
      hs == Handlers(grown, optionsHandlers, FALSE, renderer)
      dumped == dumpHandler(hs)
      changed == isDebug /\ dumped # lastDump
  IN  /\ scannedHandlers' = grown
      /\ lastDump' = IF changed THEN dumped ELSE lastDump
      /\ logged' = IF changed /\ Len(hs) # 0 THEN dumped ELSE <<>>
      /\ previousDump' = dumped
      /\ code' = <<GeneratedCode(hs)>>
      /\ UNCHANGED <<optionsHandlers, serveStatic, renderer, isDebug>>
      /\ UNCHANGED <<chunkVars, resolveCall, externalsPlugin, twin>>

\* An invocation that returns the full table only when it has dumped it.
InvokeLeaky(hs, debug, last) ==
  LET dumped == dumpHandler(hs)
      changed == debug /\ dumped # last
  IN  [lastDump |-> IF changed THEN dumped ELSE last,
       logged |-> IF changed /\ Len(hs) # 0 THEN dumped ELSE <<>>,
       code |-> GeneratedCode(IF changed THEN hs ELSE SelectSeq(hs, IsEager))]

\* The body of the generator function: what it leaves in lastDump, what it
\* prints and what it returns.
Invoke(hs, debug, last) ==
  LET dumped == dumpHandler(hs)
      changed == debug /\ dumped # last
  IN  [lastDump |-> IF changed THEN dumped ELSE last,
       logged |-> IF changed /\ Len(hs) # 0 THEN dumped ELSE <<>>,
       code |-> GeneratedCode(hs)]

\* One invocation of the generator of '#internal/nitro/virtual/server-handlers'.
Generate ==
  LET hs == Handlers(scannedHandlers, optionsHandlers, serveStatic, renderer)
      done == Invoke(hs, isDebug, lastDump)
  IN  /\ lastDump' = done.lastDump
      /\ logged' = done.logged
      /\ previousDump' = dumpHandler(hs)
      /\ code' = <<done.code>>
      /\ UNCHANGED <<scannedHandlers, optionsHandlers, serveStatic, renderer, isDebug>>
      /\ UNCHANGED <<chunkVars, resolveCall, externalsPlugin, twin>>

\* The scanner replaces nitro.scannedHandlers (a rebuild in watch mode); the
\* value returned by an earlier invocation has been consumed by then.
scanHandlers ==
  \E found \in SeqsUpTo(ScannedDecls, MaxScanned) :
    /\ found # scannedHandlers
    /\ scannedHandlers' = found
    /\ code' = <<>>
    /\ logged' = <<>>
    /\ UNCHANGED <<optionsHandlers, serveStatic, renderer, isDebug, lastDump,
                   previousDump>>
    /\ UNCHANGED <<chunkVars, resolveCall, externalsPlugin, twin>>

Next == Generate \/ scanHandlers

Spec == Init /\ [][Next]_vars

-----------------------------------------------------------------------------
(* Method inference over all short handler paths: one configured handler,  *)
(* with or without an explicit method.                                     *)

PathAlphabet == {"/", ".", "get", "post", "ts"}

ExplicitMethods == {<<>>, <<"put">>}

MethodDecls ==
  {[handler |-> p] : p \in SeqsUpTo(PathAlphabet, MaxPathLen) \ {<<>>}}
  \cup {[handler |-> p, method |-> m] :
          p \in SeqsUpTo(PathAlphabet, MaxPathLen) \ {<<>>}, m \in ExplicitMethods}

InitMethods ==
  /\ scannedHandlers = <<>>
  /\ \E h \in MethodDecls : optionsHandlers = <<h>>
  /\ serveStatic \in BOOLEAN
  /\ renderer = Undefined
  /\ isDebug = FALSE
  /\ lastDump = <<>>
  /\ previousDump = <<>>
  /\ twin = NoTwin
  /\ code = <<>>
  /\ logged = <<>>
  /\ buildDir = <<"/", "proj", "/", "out">>
  /\ runtimeDir = ProjectRuntime
  /\ tasks = {}
  /\ chunkCall = NoChunkCall
  /\ resolveCall = NoResolveCall
  /\ externalsPlugin = NoExternalsPlugin

NextMethods == Generate

SpecMethods == InitMethods /\ [][NextMethods]_vars

-----------------------------------------------------------------------------
(* Two processes over the same handler sources, invoked side by side. *)

\* A table dumped before the handler sources took their present form.
StaleDump == dumpHandler(<<StaticHandler>>)

InitTwin ==
  /\ scannedHandlers \in SeqsUpTo(ScannedDecls, MaxScanned)
  /\ optionsHandlers \in SeqsUpTo(ConfiguredDecls, 1)
  /\ serveStatic \in BOOLEAN
  /\ renderer = Undefined
  /\ isDebug \in BOOLEAN
  /\ lastDump = <<>>
  /\ previousDump = <<>>
  /\ code = <<>>
  /\ logged = <<>>
  /\ \E debug \in BOOLEAN, last \in {<<>>, StaleDump} :
       twin = <<[isDebug |-> debug, lastDump |-> last, logged |-> <<>>]>>
  /\ buildDir = <<"/", "proj", "/", "out">>
  /\ runtimeDir = ProjectRuntime
  /\ tasks = {}
  /\ chunkCall = NoChunkCall
  /\ resolveCall = NoResolveCall
  /\ externalsPlugin = NoExternalsPlugin

\* The bundler requests the module in both processes.
GenerateTwice ==
  LET hs == Handlers(scannedHandlers, optionsHandlers, serveStatic, renderer)
      done == Invoke(hs, isDebug, lastDump)
      other == Invoke(hs, twin[1].isDebug, twin[1].lastDump)
  IN  /\ twin # NoTwin
      /\ lastDump' = done.lastDump
      /\ logged' = done.logged
      /\ previousDump' = dumpHandler(hs)
      /\ code' = <<done.code>>
      /\ twin' = <<[isDebug |-> twin[1].isDebug, lastDump |-> other.lastDump,
                    logged |-> other.logged, code |-> other.code]>>
      /\ UNCHANGED <<scannedHandlers, optionsHandlers, serveStatic, renderer, isDebug>>
      /\ UNCHANGED <<chunkVars, resolveCall, externalsPlugin>>

\* The scanner replaces the discovered handlers both processes read.
scanHandlersTwice ==
  /\ twin # NoTwin
  /\ scanHandlers

NextTwin == GenerateTwice \/ scanHandlersTwice

SpecTwin == InitTwin /\ [][NextTwin]_vars

-----------------------------------------------------------------------------
(* The chunk classifier over build configurations and module paths. *)

LinkedRuntime == <<"/", "nitro", "/", "runtime">>

BuildDirs ==
  {<<"/", "proj", "/", "out">>, <<"/", "proj", "/", "out", "/">>, <<"/", "proj">>}

RuntimeDirs == {ProjectRuntime, LinkedRuntime}

\* A module of the runtime library.
RuntimeModule(rDir) == rDir \o <<"/", "x">>

\* Handlers with and without a route, one of them a module of the runtime
\* library.
ChunkConfigured(rDir) ==
  {[route |-> <<"/", "b", "/", ":", "u">>, handler |-> RuntimeModule(rDir)],
   [route |-> <<"/", "a">>, handler |-> HA, lazy |-> FALSE],
   [handler |-> HB, method |-> <<"post">>]}

TaskSets(rDir) == {{}, {HB, RuntimeModule(rDir)}}

\* What a module path starts with.
PathHeads(bDir, rDir) ==
  {bDir, buildServerDirOf(bDir), rDir, presetsDirOf(rDir), <<Nul, "raw:">>,
   <<Nul, "nitro-wasm:">>, <<Nul>>, HA, HB, <<"/", "proj", "/", "src">>, <<>>}

SubpathAlphabet == {"/", "x", ".", "ts"}

InitChunk ==
  /\ buildDir \in BuildDirs
  /\ runtimeDir \in RuntimeDirs
  /\ optionsHandlers \in SeqsUpTo(ChunkConfigured(runtimeDir), 1)
  /\ scannedHandlers \in SeqsUpTo(ScannedDecls, 1)
  /\ tasks \in TaskSets(runtimeDir)
  /\ \E head \in PathHeads(buildDir, runtimeDir) :
       \E sub \in SeqsUpTo(SubpathAlphabet, MaxSubpath) :
         chunkCall = <<[id |-> head \o sub]>>
  /\ serveStatic = FALSE
  /\ renderer = Undefined
  /\ isDebug = FALSE
  /\ lastDump = <<>>
  /\ previousDump = <<>>
  /\ twin = NoTwin
  /\ code = <<>>
  /\ logged = <<>>
  /\ resolveCall = NoResolveCall
  /\ externalsPlugin = NoExternalsPlugin

\* The bundler's call of getChunkName on the module path it holds.
CallGetChunkName ==
  /\ chunkCall # NoChunkCall
  /\ ~Has(chunkCall[1], "name")
  /\ chunkCall' = <<[id |-> chunkCall[1].id,
                     name |-> getChunkName(chunkCall[1].id, buildDir, runtimeDir,
                                           optionsHandlers, scannedHandlers, tasks)]>>
  /\ UNCHANGED <<buildDir, runtimeDir, tasks, handlerVars, resolveCall, externalsPlugin>>

NextChunk == CallGetChunkName

SpecChunk == InitChunk /\ [][NextChunk]_vars

-----------------------------------------------------------------------------
(* The chunk classifier over handler tables with competing owners. *)

SourceDir == <<"/", "proj", "/", "src">>

\* Configured handlers: routes with parameters, an owner of the whole source
\* directory, and an owner without a route.
RouteConfigured ==
  {[route |-> <<"/", "b", "/", ":", "u">>, handler |-> HA],
   [route |-> <<"/", ":", "u", "/", "b">>, handler |-> SourceDir],
   [handler |-> HA, method |-> <<"post">>],
   [route |-> <<"/", "a", "/", ":", "u", "/", ":", "v">>, handler |-> HB, lazy |-> TRUE]}

RouteBuildDirs == {<<"/", "proj", "/", "out">>, <<"/", "proj">>}

RouteHeads == {HA, HB, SourceDir}

InitRoutes ==
  /\ buildDir \in RouteBuildDirs
  /\ runtimeDir = LinkedRuntime
  /\ optionsHandlers \in SeqsUpTo(RouteConfigured, MaxConfigured)
  /\ scannedHandlers \in SeqsUpTo(ScannedDecls, MaxScanned)
  /\ tasks = {HB}
  /\ \E head \in RouteHeads :
       \E sub \in SeqsUpTo(SubpathAlphabet, MaxSubpath) :
         chunkCall = <<[id |-> head \o sub]>>
  /\ serveStatic = FALSE
  /\ renderer = Undefined
  /\ isDebug = FALSE
  /\ lastDump = <<>>
  /\ previousDump = <<>>
  /\ twin = NoTwin
  /\ code = <<>>
  /\ logged = <<>>
  /\ resolveCall = NoResolveCall
  /\ externalsPlugin = NoExternalsPlugin

NextRoutes == CallGetChunkName

SpecRoutes == InitRoutes /\ [][NextRoutes]_vars

-----------------------------------------------------------------------------
(* The resolveId hook of the "no-externals" plugin. *)

\* node:module builtinModules
builtinModules == {<<"fs">>, <<"path">>}

\* nitro.options.node && (id.startsWith("node:") || builtinModules.includes(id))
IsRuntimeBuiltin(node, id) ==
  node /\ (StartsWith(id, <<"node:">>) \/ id \in builtinModules)

\* resolveModulePath(id, { try: true, from, ... }): the search bases are the
\* importer, when it is an absolute path, and then the module directories;
\* the first base that has the module decides.  fs tells what each base has:
\* <<>> for nothing, <<path>> for the path found.
resolveModulePath(id, importer, fs) ==
  IF importer # Undefined /\ IsAbsolute(importer) /\ fs.importer # <<>>
  THEN fs.importer
  ELSE fs.nodeModules

\* A wasm exception that looks at the resolution, not at the id.
ShouldThrowWasmByResolution(resolved, id) ==
  resolved = <<>> \/ (resolved[1].external /\ ~EndsWith(resolved[1].id, <<".wasm">>))

\* A final test that forgets the import nothing resolved.
ShouldThrowOnlyExternal(resolved, id) ==
  resolved # <<>> /\ resolved[1].external /\ ~EndsWith(id, <<".wasm">>)

\* !resolved || (resolved.external && !id.endsWith(".wasm"))
ShouldThrow(resolved, id) ==
  resolved = <<>> \/ (resolved[1].external /\ ~EndsWith(id, <<".wasm">>))

\* `Cannot resolve ${JSON.stringify(id)} from ${JSON.stringify(importer)} and
\* externals are not allowed!`
CannotResolve(id, importer) ==
  <<"Cannot resolve ">> \o JSONstringify(id) \o <<" from ">>
    \o JSONstringify(importer) \o <<" and externals are not allowed!">>

\* async resolveId(id, importer, resolveOpts): what the hook does, given what
\* this.resolve answers (primary: <<>> for null, <<[id, external]>> else) and
\* what the module directories hold (fs).  asked tells whether this.resolve
\* was called.
resolveId(node, id, importer, primary, fs) ==
  IF IsRuntimeBuiltin(node, id)
  THEN [kind |-> "return", asked |-> FALSE, value |-> <<[id |-> id, external |-> TRUE]>>]
  ELSE LET resolved == primary
           fallback == IF resolved = <<>> THEN resolveModulePath(id, importer, fs)
                       ELSE <<>>
       IN  IF resolved = <<>> /\ fallback # <<>>
           THEN [kind |-> "return", asked |-> TRUE,
                 value |-> <<[id |-> fallback[1], external |-> FALSE]>>]
           ELSE IF ShouldThrow(resolved, id)
           THEN [kind |-> "throw", asked |-> TRUE, message |-> CannotResolve(id, importer)]
           ELSE [kind |-> "return", asked |-> TRUE, value |-> <<>>]

ResolveIds ==
  {<<"node:", "fs">>, <<"fs">>, <<"left-pad">>, <<"x", ".wasm">>, <<".", "/", "a">>}

Importers == {Undefined, HA, <<Nul, "virtual">>}

ResolvedPaths(id) ==
  {<<"/", "proj", "/", "node_modules", "/">> \o id,
   <<"/", "proj", "/", "node_modules", "/">> \o id \o <<".wasm">>}

PrimaryAnswers(id) ==
  {<<>>} \cup {<<[id |-> p, external |-> e]>> : p \in ResolvedPaths(id), e \in BOOLEAN}

FsAnswers(id) == {<<>>} \cup {<<p>> : p \in ResolvedPaths(id)}

InitResolve ==
  /\ \E node \in BOOLEAN, id \in ResolveIds, importer \in Importers :
       \E primary \in PrimaryAnswers(id) :
         \E fi \in FsAnswers(id), fn \in FsAnswers(id) :
           resolveCall = <<[node |-> node, id |-> id, importer |-> importer,
                            primary |-> primary,
                            fs |-> [importer |-> fi, nodeModules |-> fn]]>>
  /\ scannedHandlers = <<>>
  /\ optionsHandlers = <<>>
  /\ serveStatic = FALSE
  /\ renderer = Undefined
  /\ isDebug = FALSE
  /\ lastDump = <<>>
  /\ previousDump = <<>>
  /\ twin = NoTwin
  /\ code = <<>>
  /\ logged = <<>>
  /\ buildDir = <<"/", "proj", "/", "out">>
  /\ runtimeDir = ProjectRuntime
  /\ tasks = {}
  /\ chunkCall = NoChunkCall
  /\ externalsPlugin = NoExternalsPlugin

\* The bundler's call of the hook on the import it holds.
CallResolveId ==
  /\ resolveCall # NoResolveCall
  /\ ~Has(resolveCall[1], "outcome")
  /\ LET c == resolveCall[1]
     IN  resolveCall' =
           <<[node |-> c.node, id |-> c.id, importer |-> c.importer,
              primary |-> c.primary, fs |-> c.fs,
              outcome |-> resolveId(c.node, c.id, c.importer, c.primary, c.fs)]>>
  /\ UNCHANGED <<handlerVars, chunkVars, externalsPlugin>>

NextResolve == CallResolveId

SpecResolve == InitResolve /\ [][NextResolve]_vars

-----------------------------------------------------------------------------
(* The externals plugin of the permissive mode. *)

\* runtimeDependencies of nitropack/runtime/meta
runtimeDependencies == <<<<"h3">>, <<"ofetch">>, <<"node-fetch-native">>>>

\* A value that is a function, where a string is expected.
FunctionValue == <<"<function>">>

\* typeof i === "string"
IsString(v) == v # Undefined /\ v # FunctionValue

\* pathe dirname: the path up to its last separator.
dirname(p) ==
  LET slashes == {i \in 1..Len(p) : p[i] = Slash}
  IN  IF slashes = {} THEN <<".">>
      ELSE LET last == CHOOSE i \in slashes : \A j \in slashes : i >= j
           IN  IF last = 1 THEN <<Slash>> ELSE SubSeq(p, 1, last - 1)

\* A test that leaves the runtime dependencies out only when bundling them
\* is disabled.
OmitsRuntimeDependenciesOnlyDisabled(o) ==
  Has(o.experimental, "bundleRuntimeDependencies")
    /\ o.experimental.bundleRuntimeDependencies = FALSE

\* nitro.options.dev || nitro.options.preset === "nitro-prerender" ||
\* nitro.options.experimental.bundleRuntimeDependencies === false
OmitsRuntimeDependencies(o) ==
  \/ o.dev
  \/ o.preset = "nitro-prerender"
  \/ (Has(o.experimental, "bundleRuntimeDependencies")
        /\ o.experimental.bundleRuntimeDependencies = FALSE)

\* The `inline` array of the defaults handed to defu.
InlineDefaults(o, rDir) ==
  <<<<"#">>, <<"~">>, <<"@/">>, <<"~~">>, <<"@@/">>, <<"virtual:">>,
    <<"nitro/runtime">>, <<"nitropack/runtime">>, dirname(o.entry)>>
    \o (IF o.experimental.wasm THEN <<FunctionValue>> ELSE <<>>)
    \o <<rDir, o.srcDir>>
    \o SelectSeq(Map(o.handlers, HandlerOf), IsString)
    \o (IF OmitsRuntimeDependencies(o) THEN <<>> ELSE runtimeDependencies)

\* The `external` array of the defaults handed to defu.
ExternalDefaults(o, bDir) ==
  (IF o.dev THEN <<bDir>> ELSE <<>>) \o o.nodeModulesDirs

\* defu on an array-valued key: the arrays of the first argument and of the
\* defaults are concatenated, the first argument's in front.
DefuArray(given, key, defaults) ==
  IF Has(given, key) THEN given[key] \o defaults ELSE defaults

\* The branch of getRollupConfig that sets up the externals plugin.
ExternalsPluginOf(o, bDir, rDir) ==
  IF o.noExternals THEN [name |-> "no-externals"]
  ELSE [name |-> IF o.experimental.legacyExternals THEN "legacyExternals" ELSE "externals",
        inline |-> DefuArray(o.externals, "inline", InlineDefaults(o, rDir)),
        external |-> DefuArray(o.externals, "external", ExternalDefaults(o, bDir)),
        moduleDirectories |->
          DefuArray(o.externals, "moduleDirectories", o.nodeModulesDirs)]

Presets == {"node-server", "nitro-prerender"}

Experimentals ==
  {[wasm |-> w, legacyExternals |-> l] : w \in BOOLEAN, l \in BOOLEAN}
  \cup {[wasm |-> w, legacyExternals |-> FALSE, bundleRuntimeDependencies |-> b] :
          w \in BOOLEAN, b \in BOOLEAN}

\* Configured handlers, one of them given as a function.
ExternalsHandlers ==
  {[route |-> <<"/", "a">>, handler |-> HA, lazy |-> FALSE],
   [handler |-> HB, method |-> <<"post">>],
   [route |-> <<"/", "b">>, handler |-> FunctionValue]}

UserExternals == {[x \in {} |-> <<>>], [inline |-> <<<<"h3">>>>]}

SrcDir == <<"/", "proj", "/", "src">>

InitExternals ==
  /\ \E dev \in BOOLEAN, strict \in BOOLEAN, preset \in Presets :
       \E experimental \in Experimentals, given \in UserExternals :
         \E hs \in SeqsUpTo(ExternalsHandlers, MaxConfigured) :
           externalsPlugin =
             <<[options |-> [dev |-> dev, noExternals |-> strict, preset |-> preset,
                             experimental |-> experimental, externals |-> given,
                             handlers |-> hs, srcDir |-> SrcDir,
                             entry |-> ProjectRuntime \o <<Slash, "x">>,
                             nodeModulesDirs |->
                               <<<<"/", "proj", "/", "node_modules">>>>]]>>
  /\ buildDir = <<"/", "proj", "/", "out">>
  /\ runtimeDir \in RuntimeDirs
  /\ scannedHandlers = <<>>
  /\ optionsHandlers = <<>>
  /\ serveStatic = FALSE
  /\ renderer = Undefined
  /\ isDebug = FALSE
  /\ lastDump = <<>>
  /\ previousDump = <<>>
  /\ twin = NoTwin
  /\ code = <<>>
  /\ logged = <<>>
  /\ tasks = {}
  /\ chunkCall = NoChunkCall
  /\ resolveCall = NoResolveCall

\* getRollupConfig reaches the externals plugin.
SetUpExternals ==
  /\ externalsPlugin # NoExternalsPlugin
  /\ ~Has(externalsPlugin[1], "plugin")
  /\ externalsPlugin' =
       <<[options |-> externalsPlugin[1].options,
          plugin |-> ExternalsPluginOf(externalsPlugin[1].options, buildDir, runtimeDir)]>>
  /\ UNCHANGED <<handlerVars, chunkVars, resolveCall>>

NextExternals == SetUpExternals

SpecExternals == InitExternals /\ [][NextExternals]_vars

-----------------------------------------------------------------------------
(* Reading the generated source back. *)

Returned == code # <<>>

Rows == code[1].handlers

Statements == code[1].imports \o code[1].lazyImports

StaticRows == IF serveStatic THEN 1 ELSE 0

HasRenderer == renderer # Undefined /\ renderer # <<>>

Unquote(t) == SubSeq(t, 2, Len(t) - 1)

ParseBool(t) == t = "true"

ParseMethod(t) == IF t = <<"undefined">> THEN Undefined ELSE Unquote(t)

\* The row carries the route, the flags and the module of the declaration h.
RowIsOf(row, h) ==
  /\ Unquote(row.route) = Get(h, "route", <<>>)
  /\ ParseBool(row.lazy) = TruthyFlag(h, "lazy")
  /\ ParseBool(row.middleware) = TruthyFlag(h, "middleware")
  /\ \E s \in 1..Len(Statements) :
       Statements[s].id = row.handler /\ Statements[s].from = h.handler

\* The module ids of the table that some row declares eagerly.
EagerIds(hs) == {hs[i].handler : i \in {j \in 1..Len(hs) : ~TruthyFlag(hs[j], "lazy")}}

\* The module ids of the table that some row declares lazily.
LazyIds(hs) == {hs[i].handler : i \in {j \in 1..Len(hs) : TruthyFlag(hs[j], "lazy")}}

Table == Handlers(scannedHandlers, optionsHandlers, serveStatic, renderer)

-----------------------------------------------------------------------------
(* Claims. *)

\* C1: the rows of the emitted array are the static-asset row (when
\* serveStatic is on), then the scanned handlers in order, then the
\* configured handlers in order, then the renderer row (when a renderer is
\* configured); their number is |scanned| + |configured| + both optional rows.
C1_RowOrder ==
  Returned =>
    /\ Len(Rows) = Len(scannedHandlers) + Len(optionsHandlers) + StaticRows
                   + (IF HasRenderer THEN 1 ELSE 0)
    /\ serveStatic => RowIsOf(Rows[1], StaticHandler)
    /\ \A i \in 1..Len(scannedHandlers) :
         RowIsOf(Rows[StaticRows + i], scannedHandlers[i])
    /\ \A i \in 1..Len(optionsHandlers) :
         RowIsOf(Rows[StaticRows + Len(scannedHandlers) + i], optionsHandlers[i])
    /\ HasRenderer => RowIsOf(Rows[Len(Rows)], RendererHandler(renderer))

C1_Witness ==
  /\ Returned
  /\ serveStatic
  /\ HasRenderer
  /\ Len(scannedHandlers) >= 1
  /\ Len(optionsHandlers) >= 2
  /\ optionsHandlers[1] # optionsHandlers[2]

\* C2: a module id declared both eagerly and lazily is imported by exactly
\* one statement, the static import, and no deferred-load thunk is emitted
\* for it.
C2_EagerWins ==
  Returned =>
    \A id \in EagerIds(Table) \cap LazyIds(Table) :
      /\ Cardinality({s \in 1..Len(Statements) : Statements[s].from = id}) = 1
      /\ \A s \in 1..Len(Statements) :
           Statements[s].from = id => Statements[s].kind = "import"

\* C3: a row whose module id is declared eagerly by some row references the
\* eager binding of that id, whatever its own lazy flag, and its lazy field
\* is its own flag.
C3_RowsUseEagerBinding ==
  Returned =>
    \A i \in 1..Len(Table) :
      Table[i].handler \in EagerIds(Table) =>
        /\ Rows[i].handler = getImportId(Table[i].handler, FALSE)
        /\ ParseBool(Rows[i].lazy) = TruthyFlag(Table[i], "lazy")

\* C4: getImportId is a function of the path and the variant, and the eager
\* and the lazy identifier of one path differ: statements and rows of the
\* same module and variant carry the same identifier, and the import and
\* the thunk of one module never share theirs.
C4_ImportIdNamespaces ==
  Returned =>
    LET table == Table
        rows == Rows
        stmts == Statements
    IN  /\ \A s, t \in 1..Len(stmts) :
             /\ (stmts[s].from = stmts[t].from /\ stmts[s].kind = stmts[t].kind)
                  => stmts[s].id = stmts[t].id
             /\ (stmts[s].from = stmts[t].from /\ stmts[s].kind # stmts[t].kind)
                  => stmts[s].id # stmts[t].id
        /\ \A i \in 1..Len(table) : \A s \in 1..Len(stmts) :
             (/\ stmts[s].from = table[i].handler
              /\ (stmts[s].kind = "thunk") = TruthyFlag(table[i], "lazy"))
               => rows[i].handler = stmts[s].id

C4_Witness ==
  /\ Returned
  /\ \E s, t \in 1..Len(Statements) :
       /\ Statements[s].from = Statements[t].from
       /\ Statements[s].kind = "import"
       /\ Statements[t].kind = "thunk"

\* The row of the i-th configured handler.
ConfiguredRow(i) == Rows[StaticRows + Len(scannedHandlers) + i]

HasExplicitMethod(h) == Has(h, "method") /\ h.method # Undefined

\* The method token right before the file extension (the last "." and the
\* words after it), undefined when the token there is no method.
MethodBeforeExtension(p) ==
  LET at == {i \in 1..(Len(p) - 3) :
               /\ p[i] = "."
               /\ p[i + 1] \in Methods
               /\ p[i + 2] = "."
               /\ \A j \in (i + 3)..Len(p) : p[j] \in WordTokens}
  IN  IF at = {} THEN Undefined ELSE <<p[CHOOSE i \in at : TRUE + 1]>>

\* s is empty or a run of ".word" groups: it starts with ".", does not end
\* with ".", has no two "." in a row and nothing but "." and word tokens.
IsDotWordRun(s) ==
  \/ s = <<>>
  \/ /\ s[1] = "."
     /\ s[Len(s)] # "."
     /\ \A j \in 1..Len(s) : s[j] = "." \/ s[j] \in WordTokens
     /\ \A j \in 1..(Len(s) - 1) : ~(s[j] = "." /\ s[j + 1] = ".")

\* The positions of a ".method" followed only by ".word" groups.
MethodSuffixes(p) ==
  {i \in 1..(Len(p) - 1) :
     p[i] = "." /\ p[i + 1] \in Methods /\ IsDotWordRun(SubSeq(p, i + 2, Len(p)))}

\* C9 as stated: a configured handler keeps its explicit method, and one
\* without gets the method token right before the file extension of its
\* path, undefined when there is none.
C9_MethodBeforeExtension ==
  Returned =>
    \A i \in 1..Len(optionsHandlers) :
      LET h == optionsHandlers[i]
      IN  ParseMethod(ConfiguredRow(i).method) =
            (IF HasExplicitMethod(h) THEN h.method
             ELSE MethodBeforeExtension(h.handler))

\* C9, amended: a configured handler keeps a non-empty explicit method; one
\* with no method or an empty one gets the method token of the leftmost
\* ".method" of its path that only ".word" groups follow up to the end of
\* the path, and undefined when there is no such place.
C9_LeftmostMethodSuffix ==
  Returned =>
    \A i \in 1..Len(optionsHandlers) :
      LET h == optionsHandlers[i]
          got == ParseMethod(ConfiguredRow(i).method)
          at == MethodSuffixes(h.handler)
      IN  IF HasExplicitMethod(h) /\ h.method # <<>> THEN got = h.method
          ELSE IF at = {} THEN got = Undefined
          ELSE \E k \in at : got = <<h.handler[k + 1]>> /\ \A j \in at : k <= j

C9_Witness ==
  /\ Returned
  /\ Len(optionsHandlers) = 1
  /\ ~Has(optionsHandlers[1], "method")
  /\ Cardinality(MethodSuffixes(optionsHandlers[1].handler)) = 2
  /\ ParseMethod(ConfiguredRow(1).method) = <<"get">>

\* The statements that declare the identifier of a row.
DeclaredBy(row) == {s \in 1..Len(Statements) : Statements[s].id = row.handler}

\* The module id of the row can be read off the import statements.
Recoverable(row, h) ==
  /\ DeclaredBy(row) # {}
  /\ \A s \in DeclaredBy(row) : Statements[s].from = h.handler

\* No two module ids of the table share the first six characters of their hash.
CollisionFree(hs) ==
  \A i, j \in 1..Len(hs) :
    hs[i].handler # hs[j].handler
      => Slice0(hash(hs[i].handler), 6) # Slice0(hash(hs[j].handler), 6)

\* C10 as stated: the route, lazy, middleware and method fields read back
\* from every row are those of the row of the table, also when the row has
\* no route, no lazy flag or no middleware flag; and the module id of the
\* row is recoverable from its identifier through the import statements.
C10_RoundTripExact ==
  Returned =>
    \A i \in 1..Len(Table) :
      LET h == Table[i]
          row == Rows[i]
      IN  /\ Unquote(row.route) = Get(h, "route", Undefined)
          /\ Has(h, "lazy") /\ ParseBool(row.lazy) = h.lazy
          /\ Has(h, "middleware") /\ ParseBool(row.middleware) = h.middleware
          /\ ParseMethod(row.method) = Get(h, "method", Undefined)
          /\ Recoverable(row, h)

\* C10, amended: the fields read back are those of the row of the table
\* with a missing route read back as the empty string and a missing lazy or
\* middleware flag read back as false; and when no two module ids of the
\* table share their hash prefix, the module id of the row is recoverable
\* from its identifier through the import statements.
C10_RoundTripDefaults ==
  Returned =>
    LET table == Table
        rows == Rows
        collisionFree == CollisionFree(table)
    IN  \A i \in 1..Len(table) :
          LET h == table[i]
              row == rows[i]
          IN  /\ Unquote(row.route) = Get(h, "route", <<>>)
              /\ ParseBool(row.lazy) = (Has(h, "lazy") /\ h.lazy)
              /\ ParseBool(row.middleware) = (Has(h, "middleware") /\ h.middleware)
              /\ ParseMethod(row.method) = Get(h, "method", Undefined)
              /\ collisionFree => Recoverable(row, h)

C10_Witness ==
  /\ Returned
  /\ Len(Table) >= 3
  /\ CollisionFree(Table)
  /\ \E i \in 1..Len(Table) : ~Has(Table[i], "route") /\ ~Has(Table[i], "lazy")
  /\ \E i \in 1..Len(Table) : Has(Table[i], "middleware") /\ ~Table[i].middleware
  /\ EagerIds(Table) \cap LazyIds(Table) # {}

-----------------------------------------------------------------------------
(* Claims about the chunk classifier. *)

Classified == chunkCall # NoChunkCall /\ Has(chunkCall[1], "name")

\* The ordered prefix table as the claim lists it.
ListedRules ==
  <<<<buildDir, "build">>,
    <<buildDir \o <<Slash, "dist/server">>, "app">>,
    <<runtimeDir, "nitro">>,
    <<SubSeq(runtimeDir, 1, Len(runtimeDir) - 1) \o <<"presets">>, "nitro">>,
    <<<<Nul, "raw:">>, "raw">>,
    <<<<Nul, "nitro-wasm:">>, "wasm">>,
    <<<<Nul>>, "virtual">>>>

GroupLabels ==
  {<<"chunks/", n, "/[name].mjs">> : n \in {"build", "app", "nitro", "raw", "wasm",
                                             "virtual", "tasks", "_"}}

IsRouteGroup(name) ==
  /\ Len(name) >= 3
  /\ name[1] = "chunks/routes"
  /\ name[2] = Slash
  /\ name[Len(name)] = "/[name].mjs"

\* C7: getChunkName always returns one chunk group label, and for a path
\* that matches rules of the ordered prefix table the label is that of the
\* earliest-listed matching rule.
C7_FirstMatchingRule ==
  Classified =>
    LET id == chunkCall[1].id
        name == chunkCall[1].name
        hits == {i \in 1..Len(ListedRules) : StartsWith(id, ListedRules[i][1])}
    IN  /\ name \in GroupLabels \/ IsRouteGroup(name)
        /\ \A i \in hits :
             (\A j \in hits : i <= j) => name = <<"chunks/", ListedRules[i][2], "/[name].mjs">>

C7_Witness ==
  /\ Classified
  /\ StartsWith(chunkCall[1].id, <<Nul, "raw:">>)
  /\ Len(chunkCall[1].id) > 2
  /\ chunkCall[1].name = <<"chunks/", "raw", "/[name].mjs">>

\* C8 as stated: a module path made of the runtime library directory and a
\* subpath is in the group chunks/nitro/[name].mjs, whatever handlers or tasks
\* own the path and whatever the build directories are.
C8_RuntimeGroupAlways ==
  Classified =>
    ((/\ StartsWith(chunkCall[1].id, runtimeDir)
     /\ Len(chunkCall[1].id) > Len(runtimeDir))
      => chunkCall[1].name = <<"chunks/", "nitro", "/[name].mjs">>)

\* C8, amended: a module path made of the runtime library directory and a
\* subpath is in the group chunks/nitro/[name].mjs, whatever handlers or tasks
\* own the path, provided the path starts with neither the build directory
\* nor the server build directory.
C8_RuntimeGroupOutsideBuildDir ==
  Classified =>
    ((/\ StartsWith(chunkCall[1].id, runtimeDir)
     /\ Len(chunkCall[1].id) > Len(runtimeDir)
     /\ ~StartsWith(chunkCall[1].id, buildDir)
     /\ ~StartsWith(chunkCall[1].id, join(buildDir, <<"dist/server">>)))
      => chunkCall[1].name = <<"chunks/", "nitro", "/[name].mjs">>)

C8_Witness ==
  /\ Classified
  /\ chunkCall[1].id = RuntimeModule(runtimeDir)
  /\ ~StartsWith(chunkCall[1].id, buildDir)
  /\ Len(optionsHandlers) = 1
  /\ optionsHandlers[1].handler = RuntimeModule(runtimeDir)
  /\ Has(optionsHandlers[1], "route")
  /\ chunkCall[1].id \in tasks
  /\ chunkCall[1].name = <<"chunks/", "nitro", "/[name].mjs">>

-----------------------------------------------------------------------------
(* Claims about the no-externals hook. *)

Resolved == resolveCall # NoResolveCall /\ Has(resolveCall[1], "outcome")

\* The message names the id and the importer, each written by JSON.stringify.
NamesIdAndImporter(message, id, importer) ==
  LET at(text, i) ==
        /\ i + Len(text) - 1 <= Len(message)
        /\ SubSeq(message, i, i + Len(text) - 1) = text
  IN  \E i \in 1..Len(message) : \E j \in 2..Len(message) :
        /\ i < j
        /\ at(JSONstringify(id), i)
        /\ at(JSONstringify(importer), j)
        /\ message[j - 1] = " from "

\* Nothing in any search base the fallback consults.
FallbackFindsNothing(c) ==
  /\ c.fs.nodeModules = <<>>
  /\ (c.importer # Undefined /\ c.importer[1] = Slash) => c.fs.importer = <<>>

\* C5: in strict mode, for an import that is no exempted runtime builtin,
\* when the primary resolution and the fallback resolution both return
\* nothing the hook throws an error that names the id and its importer, and
\* returns no resolution.
C5_UnresolvedIsFatal ==
  Resolved =>
    LET c == resolveCall[1]
        exempt == c.node /\ (c.id[1] = "node:" \/ c.id \in builtinModules)
    IN  (~exempt /\ c.primary = <<>> /\ FallbackFindsNothing(c)) =>
          /\ c.outcome.kind = "throw"
          /\ NamesIdAndImporter(c.outcome.message, c.id, c.importer)

C5_Witness ==
  /\ Resolved
  /\ resolveCall[1].id = <<"left-pad">>
  /\ resolveCall[1].importer = HA
  /\ resolveCall[1].primary = <<>>
  /\ FallbackFindsNothing(resolveCall[1])
  /\ resolveCall[1].outcome.kind = "throw"

\* C6: in strict mode, when the resolution the hook gets from the primary
\* resolver is flagged external and the id does not end in ".wasm", the
\* hook throws the error naming the id and the importer; when the id ends
\* in ".wasm" it throws nothing; and an id the primary resolver resolves as
\* non-external never raises an error.
C6_ExternalIsFatalButWasm ==
  Resolved =>
    LET c == resolveCall[1]
        wasm == c.id[Len(c.id)] = ".wasm"
    IN  /\ (c.outcome.asked /\ c.primary # <<>> /\ c.primary[1].external /\ ~wasm) =>
             /\ c.outcome.kind = "throw"
             /\ NamesIdAndImporter(c.outcome.message, c.id, c.importer)
        /\ (c.primary # <<>> /\ c.primary[1].external /\ wasm) => c.outcome.kind # "throw"
        /\ (c.primary # <<>> /\ ~c.primary[1].external) => c.outcome.kind # "throw"

C6_Witness ==
  /\ Resolved
  /\ resolveCall[1].outcome.asked
  /\ resolveCall[1].id = <<"x", ".wasm">>
  /\ resolveCall[1].primary # <<>>
  /\ resolveCall[1].primary[1].external
  /\ resolveCall[1].outcome.kind = "return"

-----------------------------------------------------------------------------
(* Claims about the externals plugin. *)

Permissive ==
  /\ externalsPlugin # NoExternalsPlugin
  /\ Has(externalsPlugin[1], "plugin")
  /\ ~externalsPlugin[1].options.noExternals

Listed(list, item) == \E i \in 1..Len(list) : list[i] = item

KnownRuntimeDependencies == {<<"h3">>, <<"ofetch">>, <<"node-fetch-native">>}

\* The entries the allow-list always has: the virtual prefixes, the source
\* directory, the runtime library directory and every configured handler
\* given as a string.
AlwaysInlined(o, inline) ==
  /\ \A prefix \in {<<"#">>, <<"~">>, <<"@/">>, <<"~~">>, <<"@@/">>, <<"virtual:">>} :
       Listed(inline, prefix)
  /\ Listed(inline, o.srcDir)
  /\ Listed(inline, runtimeDir)
  /\ \A i \in 1..Len(o.handlers) :
       (o.handlers[i].handler # FunctionValue) => Listed(inline, o.handlers[i].handler)

BundlingDisabled(o) ==
  "bundleRuntimeDependencies" \in DOMAIN o.experimental
    /\ ~o.experimental.bundleRuntimeDependencies

\* C11 as stated: in permissive mode the inline allow-list has the known
\* runtime dependencies in every configuration but the one that disables
\* bundling them, and always has the virtual prefixes, the source directory,
\* the runtime library directory and the configured string handlers.
C11_RuntimeDependenciesUnlessDisabled ==
  Permissive =>
    LET o == externalsPlugin[1].options
        inline == externalsPlugin[1].plugin.inline
    IN  /\ ~BundlingDisabled(o) =>
             \A d \in KnownRuntimeDependencies : Listed(inline, d)
        /\ AlwaysInlined(o, inline)

\* C11, amended: in permissive mode the inline allow-list has the known
\* runtime dependencies in every configuration that is not a dev build, does
\* not use the nitro-prerender preset and does not disable bundling them; in
\* those three cases it has only the ones the externals option itself names;
\* it always has the virtual prefixes, the source directory, the runtime
\* library directory and the configured string handlers.
C11_RuntimeDependenciesInProductionBuilds ==
  Permissive =>
    LET o == externalsPlugin[1].options
        inline == externalsPlugin[1].plugin.inline
        given == IF "inline" \in DOMAIN o.externals THEN o.externals.inline ELSE <<>>
    IN  /\ IF o.dev \/ o.preset = "nitro-prerender" \/ BundlingDisabled(o)
           THEN \A d \in KnownRuntimeDependencies : Listed(inline, d) => Listed(given, d)
           ELSE \A d \in KnownRuntimeDependencies : Listed(inline, d)
        /\ AlwaysInlined(o, inline)

C11_Witness ==
  /\ Permissive
  /\ ~externalsPlugin[1].options.dev
  /\ externalsPlugin[1].options.preset = "node-server"
  /\ Has(externalsPlugin[1].options.experimental, "bundleRuntimeDependencies")
  /\ externalsPlugin[1].options.experimental.bundleRuntimeDependencies
  /\ Len(externalsPlugin[1].options.handlers) = 2
  /\ Listed(externalsPlugin[1].plugin.inline, <<"ofetch">>)
  /\ Listed(externalsPlugin[1].plugin.inline, HA)

-----------------------------------------------------------------------------
(* Claims about route ownership. *)

MatchesNoPrefixRule(id) ==
  \A i \in 1..Len(ListedRules) : ~StartsWith(id, ListedRules[i][1])

\* The handlers in the order of consultation: configured, then discovered.
Consulted == optionsHandlers \o scannedHandlers

\* The first handler, in the order of consultation, whose module id the path
\* starts with; 0 when no handler owns the path.
DecidingOwner(id) ==
  IF \E i \in 1..Len(Consulted) : StartsWith(id, Consulted[i].handler)
  THEN CHOOSE i \in 1..Len(Consulted) :
         /\ StartsWith(id, Consulted[i].handler)
         /\ \A j \in 1..(i - 1) : ~StartsWith(id, Consulted[j].handler)
  ELSE 0

\* The segments of a route: the texts between its "/" separators, the one
\* before the leading "/" left out.
RECURSIVE RouteSegments(_)
RouteSegments(r) ==
  IF r = <<>> THEN <<>>
  ELSE LET rest == Tail(r)
           stops == {i \in 1..Len(rest) : rest[i] = Slash}
           end == IF stops = {} THEN Len(rest) + 1
                  ELSE CHOOSE i \in stops : \A j \in stops : i <= j
       IN  <<SubSeq(rest, 1, end - 1)>> \o RouteSegments(SubSeq(rest, end, Len(rest)))

\* A `:param` segment as `_param`, any other segment as it is.
SafeSegment(seg) ==
  IF Len(seg) >= 2 /\ seg[1] = ":" THEN <<"_">> \o Tail(seg) ELSE seg

RECURSIVE ParentPath(_)
\* The segments but the last, each made safe and led by a "/".
ParentPath(segs) ==
  IF Len(segs) <= 1 THEN <<>>
  ELSE <<Slash>> \o SafeSegment(Head(segs)) \o ParentPath(Tail(segs))

\* The P of `chunks/routes<P>/[name].mjs`.
RouteGroupPath(route) ==
  LET parent == ParentPath(RouteSegments(route))
  IN  IF parent = <<>> THEN <<Slash>> ELSE parent

\* C12: a classified path that matches no prefix rule and whose first owner,
\* configured handlers consulted before discovered ones and each list in its
\* order, has a route, is grouped under chunks/routes<P>/[name].mjs, P being
\* that route with each `:param` segment as `_param` and its last segment
\* stripped, or "/" when nothing remains.
C12_RouteOwnership ==
  Classified =>
    LET id == chunkCall[1].id
        d == DecidingOwner(id)
    IN  (MatchesNoPrefixRule(id) /\ d # 0 /\ "route" \in DOMAIN Consulted[d]) =>
          chunkCall[1].name =
            <<"chunks/routes">> \o RouteGroupPath(Consulted[d].route) \o <<"/[name].mjs">>

\* A path owned by two configured handlers and a discovered one, their routes
\* leading to three different groups; the first configured one decides.
C12_Witness ==
  /\ Classified
  /\ MatchesNoPrefixRule(chunkCall[1].id)
  /\ Len(optionsHandlers) = 2
  /\ optionsHandlers[1].handler = SourceDir
  /\ optionsHandlers[2].handler = HA
  /\ "route" \in DOMAIN optionsHandlers[2]
  /\ Len(scannedHandlers) = 1
  /\ "route" \in DOMAIN scannedHandlers[1]
  /\ StartsWith(chunkCall[1].id, HA)
  /\ chunkCall[1].name = <<"chunks/routes", "/", "_", "u", "/[name].mjs">>

-----------------------------------------------------------------------------
(* Claims about the diagnostic table. *)

\* A step that is an invocation of the generator: it returns a source text
\* and leaves the handler sources alone.
Invocation == code' # <<>> /\ scannedHandlers' = scannedHandlers

Printed == logged # <<>>

\* C13: an invocation prints the diagnostic table only if debug mode is on,
\* the handler table is not empty and its serialization differs from the one
\* of the previous invocation (the empty string at first); what it prints is
\* that serialization.  Hence an invocation that follows one with the same
\* table prints nothing, and nothing is printed outside debug mode.
C13_PrintOnChangeOnly ==
  [][Invocation =>
       (Printed' =>
          /\ isDebug
          /\ Len(Table) # 0
          /\ dumpHandler(Table) # previousDump
          /\ logged' = dumpHandler(Table))]_vars

\* A debug-mode invocation over a non-empty table that printed nothing: the
\* table is the one of the invocation before it.
C13_Witness ==
  /\ Returned
  /\ isDebug
  /\ Len(Rows) >= 2
  /\ ~Printed
  /\ previousDump = dumpHandler(Table)
  /\ lastDump = previousDump

-----------------------------------------------------------------------------
(* Claims about what the generator returns. *)

BothReturned == Returned /\ twin # NoTwin /\ "code" \in DOMAIN twin[1]

\* C14: two processes over the same handler sources, whatever their debug
\* flags and the dumps they remember, get the same source text from every
\* invocation.
C14_DiagnosticsObservational ==
  BothReturned => twin[1].code = code[1]

\* The two processes have just been invoked: one printed the table, the other
\* did not, and one runs in debug mode while the other does not.
C14_Witness ==
  /\ BothReturned
  /\ isDebug # twin[1].isDebug
  /\ (logged = <<>>) # (twin[1].logged = <<>>)
  /\ lastDump # twin[1].lastDump
  /\ Len(Rows) >= 2

\* The handler sources the generator reads.
Sources == <<scannedHandlers, optionsHandlers, serveStatic, renderer>>

\* C15: an invocation leaves the handler sources as they are and returns the
\* text of the table of the sources as they are now, one row for each scanned
\* and configured handler plus the static-asset and renderer rows; when the
\* sources have not changed since the previous invocation, that is the text
\* the previous invocation returned.
C15_IdempotentNotMemoized ==
  [][(code' # <<>>) =>
       /\ Sources' = Sources
       /\ code'[1] = GeneratedCode(Table)
       /\ Len(code'[1].handlers) =
            Len(scannedHandlers) + Len(optionsHandlers) + StaticRows
              + (IF HasRenderer THEN 1 ELSE 0)
       /\ Returned => code' = code]_vars

\* A repeated invocation (debug mode, a non-empty table, nothing printed) with
\* both the static-asset row and the renderer row: each appears once.
C15_Witness ==
  /\ Returned
  /\ isDebug
  /\ logged = <<>>
  /\ serveStatic
  /\ HasRenderer
  /\ Len(scannedHandlers) = 1
  /\ Len(Rows) = 1 + Len(optionsHandlers) + 2
  /\ code[1] = GeneratedCode(Table)

-----------------------------------------------------------------------------
(* Claims about the bindings of the generated source. *)

-----------------------------------------------------------------------------
(* Claims about the server build directory. *)

\* An absolute path without ".", ".." or empty segments and without a
\* trailing separator.
IsNormalized(p) == IsAbsolute(p) /\ ResolveAbs(p) = p

\* C17: when the build directory is normalized, a classified path under the
\* server build directory buildDir/dist/server also starts with buildDir and
\* is grouped under chunks/build/[name].mjs, and no classified path at all is
\* grouped under chunks/app/[name].mjs.
C17_ServerDirShadowed ==
  (Classified /\ IsNormalized(buildDir)) =>
    LET id == chunkCall[1].id
    IN  /\ StartsWith(id, buildServerDirOf(buildDir)) =>
             (StartsWith(id, buildDir) /\ chunkCall[1].name = ChunkFile("build"))
        /\ chunkCall[1].name # ChunkFile("app")

\* A module below the server build directory of a normalized build
\* directory, classified into the build group.
C17_Witness ==
  /\ Classified
  /\ IsNormalized(buildDir)
  /\ StartsWith(chunkCall[1].id, buildServerDirOf(buildDir) \o <<Slash, "x">>)
  /\ chunkCall[1].name = ChunkFile("build")

====
